---- MODULE Spec2Model ----
(***************************************************************************)
(* Model of dali/pipeline/operator/direct_operator.h: the DirectOperator   *)
(* eager-execution wrapper.  One instance per class DirectOperator<B>,     *)
(* B in {CPU, GPU, Mixed}; the static members shared_thread_pool and       *)
(* shared_cuda_stream are per class (static members of a class template).  *)
(* A Run call is executed one workspace operation at a time.               *)
(***************************************************************************)
EXTENDS Integers, Sequences, FiniteSets, TLC

\* ---------------------------------------------------------------- bounds
MaxInputs == 1
MaxOutputs == 2
MaxBatch == 2
MaxSets == 2

\* ------------------------------------------------------------- constants
CPU_ONLY_DEVICE_ID == -1

Backends == {"CPU", "GPU", "Mixed"}
DataBackends == {"CPU", "GPU"}
Engines == Backends
\* a second instance of the accelerator class, next to the one in Engines
SecondInstance == "GPU2"
Instances == Engines \cup {SecondInstance}
ClassOf(e) == IF e = SecondInstance THEN "GPU" ELSE e
Threads == {1, 2}

\* caller-owned input batches: 1 carries no layout tag, 2 is tagged "CHW"
InputBatches == {1, 2}
BatchLayout(b) == IF b = 2 THEN "CHW" ELSE ""
BatchDim(b) == 3
ArgNames == {"arg"}
FirstAlloc == 3

\* thread pools: 1..3 are the initial shared pools of the three classes,
\* 4 is a pool owned by the caller, SetThreadPool makes 5, 6, ...
MutInitialPool(B) == 0
InitialPool(B) == CASE B = "CPU" -> 1 [] B = "GPU" -> 2 [] OTHER -> 3
UserPool == 4
NoPool == 0
NoStream == -1
\* device ids: the host-only id and one accelerator; streams: the initial
\* handle 0 and the pooled stream of the accelerator
DeviceIds == {CPU_ONLY_DEVICE_ID, 0}
Streams == {0, 1}

VARIABLES
  num_outputs,         \* [Instances -> Nat], fixed at construction
  batch_size,          \* [Instances -> Nat], fixed at construction
  ws,                  \* [Instances -> workspace]
  shared_thread_pool,  \* [Backends -> pool id]
  shared_cuda_stream,  \* [Backends -> stream]
  pools,               \* pool id -> attributes, alive pools only
  nsets,               \* number of SetThreadPool / SetCudaStream calls made
  latest,              \* the pool and the stream most recently installed by a setter
  heap,                \* storage id -> batch contents (live batches only)
  pending,             \* [Streams -> set of storage ids written by queued work]
  call,                \* [Threads -> activation record of Run / RunImpl]
  held,                \* [Threads -> batches returned by the caller's last call]
  last                 \* [Threads -> how the caller's last call ended]

vars == <<num_outputs, batch_size, ws, shared_thread_pool, shared_cuda_stream,
          pools, nsets, latest, heap, pending, call, held, last>>

Range(s) == {s[k] : k \in 1..Len(s)}
Min(S) == CHOOSE x \in S : \A y \in S : x <= y

\* ------------------------------------------------------------ workspace
EmptyWs == [inputs |-> <<>>, args |-> {}, outputs |-> <<>>,
            tp |-> NoPool, stream |-> NoStream, batch |-> 0]

\* workspace_t<Backend>::Clear
WsClear(w) == EmptyWs

\* template arguments WSInputType / WSOutputType chosen by the specialisations
WSInputType(e) == IF ClassOf(e) = "GPU" THEN "TensorList" ELSE "TensorVector"
WSOutputType(e) == IF ClassOf(e) = "CPU" THEN "TensorVector" ELSE "TensorList"

\* the default input layouts declared by the schema of the operator each
\* engine wraps: the accelerator operator declares none
SchemaDefault(e, in_idx, ndim) ==
  IF ClassOf(e) # "GPU" /\ in_idx = 0 /\ ndim = 3 THEN "HWC" ELSE ""
\* op_spec.GetSchema().GetInputLayout(index, sample_ndim, layout)
GetInputLayout(e, in_idx, ndim, layout) ==
  IF layout # "" THEN layout ELSE SchemaDefault(e, in_idx, ndim)

\* WSInputType::ShareData(*inputs[in_idx]): same storage, same metadata
ShareData(b) == [data |-> b, layout |-> BatchLayout(b), ndim |-> BatchDim(b)]

MutWrapInput(e, in_idx, b) ==
  LET tensor_in == ShareData(b)
  IN [tensor_in EXCEPT !.layout = SchemaDefault(e, in_idx, tensor_in.ndim)]
\* body of the input loop of RunImpl for one in_idx (0-based)
WrapInput(e, in_idx, b) ==
  LET tensor_in == ShareData(b)
  IN IF tensor_in.layout = ""
     THEN LET default_layout == GetInputLayout(e, in_idx, tensor_in.ndim, tensor_in.layout)
          IN IF default_layout # ""
             THEN [tensor_in EXCEPT !.layout = default_layout]
             ELSE tensor_in
     ELSE tensor_in

\* ----------------------------------------------------------------- heap
NoShape == <<>>
NoType == 0
Garbage == [shape |-> <<-1>>, type |-> -1]
\* std::make_shared<WSOutputType>(batch_size)
NewSlot(kind, bs) == [kind |-> kind, n |-> bs, shape |-> NoShape, type |-> NoType,
                      val |-> <<>>, by |-> "none"]
\* the descriptor the operator produces for output k (1-based)
DescOf(k) == [shape |-> <<k>>, type |-> k]
\* TensorList / TensorVector ::Resize(shape, type)
Resize(o, d) == [o EXCEPT !.shape = d.shape, !.type = d.type, !.by = "engine"]
\* what the operator writes to output k of workspace w in Run
OpValue(w, k) == <<w.inputs, w.args, k>>
OpWrite(o, w, k) ==
  IF o.by = "none"
  THEN [o EXCEPT !.shape = DescOf(k).shape, !.type = DescOf(k).type,
                 !.val = OpValue(w, k), !.by = "op"]
  ELSE [o EXCEPT !.val = OpValue(w, k)]

MutAllocId(hp) == FirstAlloc
AllocId(hp) == Min({k \in FirstAlloc..(FirstAlloc + Cardinality(DOMAIN hp)) :
                      k \notin DOMAIN hp})
Live(w, c, h) == UNION ({Range(w[e].outputs) : e \in Instances}
                   \cup {Range(c[t].outputs) : t \in Threads}
                   \cup {Range(h[t]) : t \in Threads})
Collect(hp, w, c, h) == [k \in (DOMAIN hp) \cap Live(w, c, h) |-> hp[k]]
Drop(pd, w, c, h) == [s \in Streams |-> pd[s] \cap Live(w, c, h)]

\* AsTensorList(shared_ptr<TensorList>): the argument itself
AsTensorListSame(src, hp) == [id |-> src, heap |-> hp]
MutAsTensorListCopy(src, hp) == [id |-> src, heap |-> hp]
\* AsTensorList(shared_ptr<TensorVector>): make_shared + Copy
AsTensorListCopy(src, hp) ==
  LET tl == AllocId(hp)
  IN [id |-> tl,
      heap |-> [k \in (DOMAIN hp) \cup {tl} |->
                  IF k = tl THEN [hp[src] EXCEPT !.kind = "TensorList"] ELSE hp[k]]]
AsTensorList(kind, src, hp) ==
  IF kind = "TensorList" THEN AsTensorListSame(src, hp) ELSE AsTensorListCopy(src, hp)

\* ------------------------------------------------------- call records
IdleCall == [pc |-> "idle", e |-> "CPU", inB |-> "CPU", outB |-> "CPU",
             form |-> "none", res |-> 0,
             inputs |-> <<>>, kwargs |-> {}, kw_left |-> {}, in_idx |-> 0, i |-> 0,
             output_desc |-> <<>>, setup |-> "none", infer |-> "none",
             outputs |-> <<>>, trace |-> <<>>, after |-> "none", overlap |-> FALSE]

\* the ways a Run call that entered a specialisation ends with an exception
FailedStatuses == {"setup_failed", "run_failed", "cuda_error", "fault",
                   "bad_output_index"}

InputVectors == UNION {[1..n -> InputBatches] : n \in 0..MaxInputs}
KwargSets == SUBSET (ArgNames \X {1})

\* the explicit specialisations of Run that exist (lines 112-177); every
\* other instantiation is a primary template (lines 57-81)
MutSupported(e, inB, outB, form) ==
  \/ e = "CPU" /\ inB = "CPU" /\ outB = "CPU"
  \/ ClassOf(e) = "GPU" /\ inB = "GPU" /\ outB = "GPU" /\ form \in {"default", "stream"}
  \/ e = "Mixed" /\ inB = "CPU" /\ outB = "GPU" /\ form \in {"default", "stream"}
Supported(e, inB, outB, form) ==
  \/ e = "CPU" /\ inB = "CPU" /\ outB = "CPU" /\ form \in {"default", "pool"}
  \/ ClassOf(e) = "GPU" /\ inB = "GPU" /\ outB = "GPU" /\ form \in {"default", "stream"}
  \/ e = "Mixed" /\ inB = "CPU" /\ outB = "GPU" /\ form \in {"default", "stream"}

\* ----------------------------------------------------------------- Init
Init ==
  /\ \E n \in (MaxOutputs - 1)..MaxOutputs : num_outputs = [e \in Instances |-> n]
  /\ batch_size = [e \in Instances |-> MaxBatch]
  /\ ws = [e \in Instances |-> EmptyWs]
  /\ shared_thread_pool = [B \in Backends |-> InitialPool(B)]
  /\ shared_cuda_stream = [B \in Backends |-> 0]
  /\ pools = [p \in 1..UserPool |->
                [num_threads |-> 1, device_id |-> 0, set_affinity |-> FALSE]]
  /\ nsets = 0
  /\ latest = [tp |-> NoPool, stream |-> NoStream]
  /\ heap = <<>>
  /\ pending = [s \in Streams |-> {}]
  /\ call = [t \in Threads |-> IdleCall]
  /\ held = [t \in Threads |-> <<>>]
  /\ last = [t \in Threads |-> "none"]

\* ------------------------------------------------------ Run entry points
\* the activation record of a call that enters a specialisation; "after"
\* remembers the exception that ended the caller's previous call, if any,
\* and "overlap" whether another call has been in flight on the same
\* instance at the same time
Enter(t, e, inB, outB, form, res, inputs, kwargs) ==
  LET busy == {t2 \in Threads \ {t} : call[t2].pc # "idle" /\ call[t2].e = e}
  IN [t2 \in Threads |->
        IF t2 = t
        THEN [IdleCall EXCEPT !.pc = "Clear", !.e = e, !.inB = inB,
                              !.outB = outB, !.form = form,
                              !.res = res, !.inputs = inputs,
                              !.kwargs = kwargs, !.kw_left = kwargs,
                              !.after = IF last[t] \in FailedStatuses
                                        THEN last[t] ELSE "none",
                              !.overlap = busy # {}]
        ELSE IF t2 \in busy THEN [call[t2] EXCEPT !.overlap = TRUE]
                            ELSE call[t2]]

\* primary templates: DALI_FAIL, nothing else
Unsupported(t, e, form) ==
  /\ last' = [last EXCEPT ![t] = "unsupported"]
  /\ UNCHANGED <<num_outputs, batch_size, ws, shared_thread_pool,
                 shared_cuda_stream, pools, nsets, latest, heap, pending, call, held>>

Entered(t, e, inB, outB, form, res, inputs, kwargs) ==
  /\ call' = Enter(t, e, inB, outB, form, res, inputs, kwargs)
  /\ last' = [last EXCEPT ![t] = "running"]
  /\ UNCHANGED <<num_outputs, batch_size, ws, shared_thread_pool,
                 shared_cuda_stream, pools, nsets, latest, heap, pending, held>>

MutSharedResource(e) ==
  IF e = "CPU" THEN InitialPool(e) ELSE 0
\* the resource a default-path call on engine e passes on
SharedResource(e) ==
  IF e = "CPU" THEN shared_thread_pool[ClassOf(e)] ELSE shared_cuda_stream[ClassOf(e)]

\* Run(inputs, kwargs)
RunDefault(t, e, inB, outB, inputs, kwargs) ==
  /\ call[t].pc = "idle"
  /\ IF Supported(e, inB, outB, "default")
     THEN Entered(t, e, inB, outB, "default", SharedResource(e), inputs, kwargs)
     ELSE Unsupported(t, e, "default")

\* Run(inputs, kwargs, ThreadPool *tp)
RunThreadPool(t, e, inB, outB, inputs, kwargs, tp) ==
  /\ call[t].pc = "idle"
  /\ IF Supported(e, inB, outB, "pool")
     THEN Entered(t, e, inB, outB, "pool", tp, inputs, kwargs)
     ELSE Unsupported(t, e, "pool")

\* Run(inputs, kwargs, cudaStream_t cuda_stream)
RunCudaStream(t, e, inB, outB, inputs, kwargs, cuda_stream) ==
  /\ call[t].pc = "idle"
  /\ IF Supported(e, inB, outB, "stream")
     THEN Entered(t, e, inB, outB, "stream", cuda_stream, inputs, kwargs)
     ELSE Unsupported(t, e, "stream")

\* ------------------------------------------------- steps of a Run call
Log(c, name, arg) == Append(c.trace, <<name, arg>>)

\* first statement after the binding (and first synchronisation) is done
MutAfterArgs(c) == "SetBatchSizes"
AfterArgs(c) == IF num_outputs[c.e] > 0 THEN "AddOutput" ELSE "SetBatchSizes"
MutAfterInputs(c) == AfterArgs(c)
AfterInputs(c) == IF c.kwargs # {} THEN "AddArg" ELSE AfterArgs(c)
AfterBinding(c) == IF Len(c.inputs) > 0 THEN "AddInput" ELSE AfterInputs(c)
MutAfterRunImpl(c) == "Return"
AfterRunImpl(c) == IF c.e = "CPU" THEN "Return" ELSE "Sync2"
MutAfterOpRun(c) == AfterRunImpl(c)
AfterOpRun(c) == IF num_outputs[c.e] > 0 THEN "Convert" ELSE AfterRunImpl(c)

MutFail(t, status) ==
  /\ last' = [last EXCEPT ![t] = status]
  /\ UNCHANGED <<num_outputs, batch_size, ws, shared_thread_pool, shared_cuda_stream,
                 pools, nsets, latest, heap, pending, call, held>>
\* an exception leaves the call: locals are destroyed, the workspace stays
Fail(t, status) ==
  /\ call' = [call EXCEPT ![t] = IdleCall]
  /\ last' = [last EXCEPT ![t] = status]
  /\ heap' = Collect(heap, ws, call', held)
  /\ pending' = Drop(pending, ws, call', held)
  /\ UNCHANGED <<num_outputs, batch_size, ws, shared_thread_pool,
                 shared_cuda_stream, pools, nsets, latest, held>>

MutClear(t) ==
  LET c == call[t] IN
  /\ c.pc = "Clear"
  /\ call' = [call EXCEPT ![t] = [c EXCEPT !.pc = "SetBinding",
                                           !.trace = Log(c, "Clear", 0)]]
  /\ UNCHANGED <<num_outputs, batch_size, ws, shared_thread_pool, shared_cuda_stream,
                 pools, nsets, latest, heap, pending, held, last>>
\* ws.Clear()
Clear(t) ==
  LET c == call[t] IN
  /\ c.pc = "Clear"
  /\ ws' = [ws EXCEPT ![c.e] = WsClear(@)]
  /\ call' = [call EXCEPT ![t] = [c EXCEPT !.pc = "SetBinding",
                                           !.trace = Log(c, "Clear", 0)]]
  /\ heap' = Collect(heap, ws', call', held)
  /\ pending' = Drop(pending, ws', call', held)
  /\ UNCHANGED <<num_outputs, batch_size, shared_thread_pool,
                 shared_cuda_stream, pools, nsets, latest, held, last>>

MutSetBinding(t) ==
  LET c == call[t] IN
  /\ c.pc = "SetBinding"
  /\ ws' = [ws EXCEPT ![c.e] = IF c.e = "CPU" THEN [@ EXCEPT !.tp = SharedResource(c.e)]
                                              ELSE [@ EXCEPT !.stream = SharedResource(c.e)]]
  /\ call' = [call EXCEPT ![t] =
       [c EXCEPT !.pc = IF c.e = "CPU" THEN AfterBinding(c) ELSE "Sync1",
                 !.trace = Log(c, IF c.e = "CPU" THEN "SetThreadPool" ELSE "set_stream",
                               c.res)]]
  /\ UNCHANGED <<num_outputs, batch_size, shared_thread_pool, shared_cuda_stream,
                 pools, nsets, latest, heap, pending, held, last>>
\* ws.SetThreadPool(thread_pool) / ws.set_stream(cuda_stream)
SetBinding(t) ==
  LET c == call[t] IN
  /\ c.pc = "SetBinding"
  /\ ws' = [ws EXCEPT ![c.e] = IF c.e = "CPU" THEN [@ EXCEPT !.tp = c.res]
                                              ELSE [@ EXCEPT !.stream = c.res]]
  /\ call' = [call EXCEPT ![t] =
       [c EXCEPT !.pc = IF c.e = "CPU" THEN AfterBinding(c) ELSE "Sync1",
                 !.trace = Log(c, IF c.e = "CPU" THEN "SetThreadPool" ELSE "set_stream",
                               c.res)]]
  /\ UNCHANGED <<num_outputs, batch_size, shared_thread_pool, shared_cuda_stream,
                 pools, nsets, latest, heap, pending, held, last>>

\* CUDA_CALL(cudaStreamSynchronize(cuda_stream)), before RunImpl
Sync1(t, ok) ==
  LET c == call[t] IN
  /\ c.pc = "Sync1"
  /\ IF ok
     THEN /\ pending' = [pending EXCEPT ![c.res] = {}]
          /\ call' = [call EXCEPT ![t] =
               [c EXCEPT !.pc = AfterBinding(c),
                         !.trace = Log(c, "cudaStreamSynchronize", c.res)]]
          /\ UNCHANGED <<num_outputs, batch_size, ws, shared_thread_pool,
                         shared_cuda_stream, pools, nsets, latest, heap, held, last>>
     ELSE Fail(t, "cuda_error")

MutAddInput(t) ==
  LET c == call[t] IN
  /\ c.pc = "AddInput"
  /\ c.in_idx < Len(c.inputs)
  /\ ws' = [e \in Instances |->
              IF ClassOf(e) = ClassOf(c.e)
              THEN [ws[e] EXCEPT !.inputs =
                      Append(@, WrapInput(c.e, c.in_idx, c.inputs[c.in_idx + 1]))]
              ELSE ws[e]]
  /\ call' = [call EXCEPT ![t] =
       [c EXCEPT !.in_idx = @ + 1,
                 !.pc = IF c.in_idx + 1 < Len(c.inputs) THEN "AddInput"
                                                        ELSE AfterInputs(c),
                 !.trace = Log(c, "AddInput", c.in_idx)]]
  /\ UNCHANGED <<num_outputs, batch_size, shared_thread_pool, shared_cuda_stream,
                 pools, nsets, latest, heap, pending, held, last>>
\* one iteration of the input loop: ShareData, default layout, ws.AddInput
AddInput(t) ==
  LET c == call[t] IN
  /\ c.pc = "AddInput"
  /\ c.in_idx < Len(c.inputs)
  /\ ws' = [ws EXCEPT ![c.e].inputs =
              Append(@, WrapInput(c.e, c.in_idx, c.inputs[c.in_idx + 1]))]
  /\ call' = [call EXCEPT ![t] =
       [c EXCEPT !.in_idx = @ + 1,
                 !.pc = IF c.in_idx + 1 < Len(c.inputs) THEN "AddInput"
                                                        ELSE AfterInputs(c),
                 !.trace = Log(c, "AddInput", c.in_idx)]]
  /\ UNCHANGED <<num_outputs, batch_size, shared_thread_pool, shared_cuda_stream,
                 pools, nsets, latest, heap, pending, held, last>>

\* one iteration of the kwargs loop: ws.AddArgumentInput(name, batch)
AddArgumentInput(t) ==
  LET c == call[t] IN
  /\ c.pc = "AddArg"
  /\ \E arg \in c.kw_left :
       /\ ws' = [ws EXCEPT ![c.e].args = @ \cup {arg}]
       /\ call' = [call EXCEPT ![t] =
            [c EXCEPT !.kw_left = @ \ {arg},
                      !.pc = IF c.kw_left = {arg} THEN AfterArgs(c) ELSE "AddArg",
                      !.trace = Log(c, "AddArgumentInput", arg[2])]]
  /\ UNCHANGED <<num_outputs, batch_size, shared_thread_pool, shared_cuda_stream,
                 pools, nsets, latest, heap, pending, held, last>>

\* one iteration of the allocation loop: ws.AddOutput(make_shared(batch_size))
AddOutput(t) ==
  LET c == call[t]
      slot == AllocId(heap)
  IN
  /\ c.pc = "AddOutput"
  /\ c.i < num_outputs[c.e]
  /\ heap' = [k \in (DOMAIN heap) \cup {slot} |->
                IF k = slot THEN NewSlot(WSOutputType(c.e), batch_size[c.e])
                            ELSE heap[k]]
  /\ ws' = [ws EXCEPT ![c.e].outputs = Append(@, slot)]
  /\ call' = [call EXCEPT ![t] =
       [c EXCEPT !.i = IF c.i + 1 < num_outputs[c.e] THEN c.i + 1 ELSE 0,
                 !.pc = IF c.i + 1 < num_outputs[c.e] THEN "AddOutput"
                                                      ELSE "SetBatchSizes",
                 !.trace = Log(c, "AddOutput", c.i)]]
  /\ UNCHANGED <<num_outputs, batch_size, shared_thread_pool, shared_cuda_stream,
                 pools, nsets, latest, pending, held, last>>

\* ws.SetBatchSizes(batch_size)
SetBatchSizes(t) ==
  LET c == call[t] IN
  /\ c.pc = "SetBatchSizes"
  /\ ws' = [ws EXCEPT ![c.e].batch = batch_size[c.e]]
  /\ call' = [call EXCEPT ![t] = [c EXCEPT !.pc = "Setup",
                                           !.trace = Log(c, "SetBatchSizes", batch_size[c.e])]]
  /\ UNCHANGED <<num_outputs, batch_size, shared_thread_pool, shared_cuda_stream,
                 pools, nsets, latest, heap, pending, held, last>>

\* how many descriptors a Setup that returns true may have filled in
DescCounts(n) == {k \in 0..n : k >= n - 1}

\* op->Setup(output_desc, ws): throws, or returns r after filling in nd
\* descriptors
Setup(t, r, nd) ==
  LET c == call[t] IN
  /\ c.pc = "Setup"
  /\ CASE r = "throw" -> Fail(t, "setup_failed")
       [] r = "false" ->
            /\ call' = [call EXCEPT ![t] = [c EXCEPT !.setup = "false", !.pc = "OpRun",
                                                     !.trace = Log(c, "Setup", 0)]]
            /\ UNCHANGED <<num_outputs, batch_size, ws, shared_thread_pool,
                           shared_cuda_stream, pools, nsets, latest, heap, pending, held, last>>
       [] OTHER ->
            /\ call' = [call EXCEPT ![t] =
                 [c EXCEPT !.setup = "true", !.pc = "CanInferOutputs",
                           !.output_desc = [k \in 1..nd |-> DescOf(k)],
                           !.trace = Log(c, "Setup", 1)]]
            /\ UNCHANGED <<num_outputs, batch_size, ws, shared_thread_pool,
                           shared_cuda_stream, pools, nsets, latest, heap, pending, held, last>>

MutCanInferOutputs(t, b) ==
  LET c == call[t] IN
  /\ c.pc = "CanInferOutputs"
  /\ call' = [call EXCEPT ![t] =
       [c EXCEPT !.infer = IF b THEN "true" ELSE "false",
                 !.i = 0,
                 !.pc = IF num_outputs[c.e] > 0 THEN "Resize" ELSE "OpRun",
                 !.trace = Log(c, "CanInferOutputs", IF b THEN 1 ELSE 0)]]
  /\ UNCHANGED <<num_outputs, batch_size, ws, shared_thread_pool,
                 shared_cuda_stream, pools, nsets, latest, heap, pending, held, last>>
\* op->CanInferOutputs(), evaluated only when Setup returned true
CanInferOutputs(t, b) ==
  LET c == call[t] IN
  /\ c.pc = "CanInferOutputs"
  /\ call' = [call EXCEPT ![t] =
       [c EXCEPT !.infer = IF b THEN "true" ELSE "false",
                 !.i = 0,
                 !.pc = IF b /\ num_outputs[c.e] > 0 THEN "Resize" ELSE "OpRun",
                 !.trace = Log(c, "CanInferOutputs", IF b THEN 1 ELSE 0)]]
  /\ UNCHANGED <<num_outputs, batch_size, ws, shared_thread_pool,
                 shared_cuda_stream, pools, nsets, latest, heap, pending, held, last>>

\* the state after ws.Output<OutBackend>(i).Resize(d.shape, d.type)
Resized(t, d) ==
  LET c == call[t]
      slot == ws[c.e].outputs[c.i + 1]
  IN
  /\ heap' = [heap EXCEPT ![slot] = Resize(@, d)]
  /\ call' = [call EXCEPT ![t] =
       [c EXCEPT !.i = IF c.i + 1 < num_outputs[c.e] THEN c.i + 1 ELSE 0,
                 !.pc = IF c.i + 1 < num_outputs[c.e] THEN "Resize" ELSE "OpRun",
                 !.trace = Log(c, "Resize", c.i)]]
  /\ UNCHANGED <<num_outputs, batch_size, ws, shared_thread_pool,
                 shared_cuda_stream, pools, nsets, latest, pending, held, last>>

\* one iteration of the resize loop.  output_desc[i] past the end of the
\* vector is an out-of-bounds read: the build either faults or reads garbage
ResizeOutput(t, ub) ==
  LET c == call[t] IN
  /\ c.pc = "Resize"
  /\ c.i < num_outputs[c.e]
  /\ IF c.i >= Len(ws[c.e].outputs)
     THEN Fail(t, "bad_output_index")
     ELSE IF c.i < Len(c.output_desc)
          THEN Resized(t, c.output_desc[c.i + 1])
          ELSE IF ub = "garbage" THEN Resized(t, Garbage) ELSE Fail(t, "fault")

\* op->Run(ws): the operator fills every output of the workspace; on the
\* accelerator the writes are work queued on the workspace's stream
OpRun(t, ok) ==
  LET c == call[t]
      w == ws[c.e]
  IN
  /\ c.pc = "OpRun"
  /\   IF ok
       THEN /\ heap' = [k \in DOMAIN heap |->
                          IF \E j \in 1..Len(w.outputs) : w.outputs[j] = k
                          THEN OpWrite(heap[k], w,
                                       CHOOSE j \in 1..Len(w.outputs) : w.outputs[j] = k)
                          ELSE heap[k]]
            /\ pending' = IF c.e # "CPU" /\ w.stream \in Streams
                          THEN [pending EXCEPT ![w.stream] = @ \cup Range(w.outputs)]
                          ELSE pending
            /\ call' = [call EXCEPT ![t] = [c EXCEPT !.pc = AfterOpRun(c), !.i = 0,
                                                     !.trace = Log(c, "Run", 0)]]
            /\ UNCHANGED <<num_outputs, batch_size, ws, shared_thread_pool,
                           shared_cuda_stream, pools, nsets, latest, held, last>>
       ELSE Fail(t, "run_failed")

\* one iteration of the result loop:
\* outputs.push_back(AsTensorList<OutBackend>(ws.OutputPtr<OutBackend>(i)))
Convert(t) ==
  LET c == call[t] IN
  /\ c.pc = "Convert"
  /\ c.i < num_outputs[c.e]
  /\ IF c.i >= Len(ws[c.e].outputs)
     THEN Fail(t, "bad_output_index")
     ELSE LET r == AsTensorList(WSOutputType(c.e), ws[c.e].outputs[c.i + 1], heap) IN
          /\ heap' = r.heap
          /\ call' = [call EXCEPT ![t] =
               [c EXCEPT !.outputs = Append(@, r.id),
                         !.i = IF c.i + 1 < num_outputs[c.e] THEN c.i + 1 ELSE 0,
                         !.pc = IF c.i + 1 < num_outputs[c.e] THEN "Convert"
                                                              ELSE AfterRunImpl(c),
                         !.trace = Log(c, "AsTensorList", c.i)]]
          /\ UNCHANGED <<num_outputs, batch_size, ws, shared_thread_pool,
                         shared_cuda_stream, pools, nsets, latest, pending, held, last>>

\* CUDA_CALL(cudaStreamSynchronize(cuda_stream)), after RunImpl
Sync2(t, ok) ==
  LET c == call[t] IN
  /\ c.pc = "Sync2"
  /\ IF ok
     THEN /\ pending' = [pending EXCEPT ![c.res] = {}]
          /\ call' = [call EXCEPT ![t] =
               [c EXCEPT !.pc = "Return",
                         !.trace = Log(c, "cudaStreamSynchronize", c.res)]]
          /\ UNCHANGED <<num_outputs, batch_size, ws, shared_thread_pool,
                         shared_cuda_stream, pools, nsets, latest, heap, held, last>>
     ELSE Fail(t, "cuda_error")

\* return outputs: the caller receives the vector and drops its older results
Return(t) ==
  LET c == call[t] IN
  /\ c.pc = "Return"
  /\ held' = [held EXCEPT ![t] = c.outputs]
  /\ last' = [last EXCEPT ![t] = "ok"]
  /\ call' = [call EXCEPT ![t] = IdleCall]
  /\ heap' = Collect(heap, ws, call', held')
  /\ pending' = Drop(pending, ws, call', held')
  /\ UNCHANGED <<num_outputs, batch_size, ws, shared_thread_pool,
                 shared_cuda_stream, pools, nsets, latest>>

\* --------------------------------------------------- resource setters
\* std::make_unique<ThreadPool>(...): a pool at an address not in use
NewPool == Min({p \in (UserPool + 1)..(UserPool + 1 + Cardinality(DOMAIN pools)
                                                    + Cardinality(Instances) + Cardinality(Threads)) :
                  /\ p \notin DOMAIN pools
                  /\ \A e \in Instances : ws[e].tp # p
                  /\ \A t \in Threads : call[t].res # p})

MutSetThreadPool(B, num_threads, device_id, set_affinity) ==
  LET old == shared_thread_pool[B] IN
  /\ nsets < MaxSets
  /\ nsets' = nsets + 1
  /\ pools' = [p \in (DOMAIN pools) \ {old} |-> pools[p]]
  /\ latest' = [latest EXCEPT !.tp = old]
  /\ UNCHANGED <<num_outputs, batch_size, ws, shared_thread_pool, shared_cuda_stream,
                 heap, pending, call, held, last>>
\* DirectOperator<B>::SetThreadPool(num_threads, device_id, set_affinity)
SetThreadPool(B, num_threads, device_id, set_affinity) ==
  LET old == shared_thread_pool[B]
      new == NewPool
  IN
  /\ nsets < MaxSets
  /\ nsets' = nsets + 1
  /\ shared_thread_pool' = [shared_thread_pool EXCEPT ![B] = new]
  /\ pools' = [p \in ((DOMAIN pools) \ {old}) \cup {new} |->
                 IF p = new THEN [num_threads |-> num_threads, device_id |-> device_id,
                                  set_affinity |-> set_affinity]
                            ELSE pools[p]]
  /\ latest' = [latest EXCEPT !.tp = new]
  /\ UNCHANGED <<num_outputs, batch_size, ws, shared_cuda_stream, heap, pending,
                 call, held, last>>

\* CUDAStreamPool::instance().Get(device_id): the pooled stream of the device
StreamPoolGet(device_id) == device_id + 1

MutSetCudaStream(B, device_id) ==
  /\ nsets < MaxSets
  /\ nsets' = nsets + 1
  /\ shared_cuda_stream' = [shared_cuda_stream EXCEPT ![B] = StreamPoolGet(device_id)]
  /\ latest' = [latest EXCEPT !.stream = StreamPoolGet(device_id)]
  /\ UNCHANGED <<num_outputs, batch_size, ws, shared_thread_pool, pools, heap,
                 pending, call, held, last>>
\* DirectOperator<B>::SetCudaStream(device_id)
SetCudaStream(B, device_id) ==
  /\ nsets < MaxSets
  /\ nsets' = nsets + 1
  /\ shared_cuda_stream' = IF device_id # CPU_ONLY_DEVICE_ID
                           THEN [shared_cuda_stream EXCEPT ![B] = StreamPoolGet(device_id)]
                           ELSE shared_cuda_stream
  /\ latest' = IF device_id # CPU_ONLY_DEVICE_ID
                THEN [latest EXCEPT !.stream = StreamPoolGet(device_id)]
                ELSE latest
  /\ UNCHANGED <<num_outputs, batch_size, ws, shared_thread_pool, pools, heap,
                 pending, call, held, last>>

\* ------------------------------------------------------ specifications
\* Spec: one caller thread that makes its calls one after the other on one
\* engine instance.  The operator honours the contract of Setup (one
\* descriptor per output when it returns true) and nothing throws.
OnlyEngine(e) == \A e2 \in Instances \ {e} : ws[e2] = EmptyWs
PoolArgs == {shared_thread_pool["CPU"], UserPool}

Steps(t) ==
  \/ Clear(t)
  \/ SetBinding(t)
  \/ Sync1(t, TRUE)
  \/ AddInput(t)
  \/ AddArgumentInput(t)
  \/ AddOutput(t)
  \/ SetBatchSizes(t)
  \/ \E r \in {"false", "true"} : Setup(t, r, num_outputs[call[t].e])
  \/ \E b \in BOOLEAN : CanInferOutputs(t, b)
  \/ ResizeOutput(t, "fault")
  \/ OpRun(t, TRUE)
  \/ Convert(t)
  \/ Sync2(t, TRUE)
  \/ Return(t)

Calls(t, Ins, Kws) ==
  \/ \E e \in Engines :
       /\ call[t].pc = "idle" /\ OnlyEngine(e)
       /\ \E inB \in DataBackends, outB \in DataBackends, inputs \in Ins, kwargs \in Kws :
            RunDefault(t, e, inB, outB, inputs, kwargs)
  \/ \E e \in Engines :
       /\ call[t].pc = "idle" /\ OnlyEngine(e)
       /\ \E inB \in DataBackends, outB \in DataBackends, inputs \in Ins, kwargs \in Kws,
             tp \in PoolArgs :
            RunThreadPool(t, e, inB, outB, inputs, kwargs, tp)
  \/ \E e \in Engines :
       /\ call[t].pc = "idle" /\ OnlyEngine(e)
       /\ \E inB \in DataBackends, outB \in DataBackends, inputs \in Ins, kwargs \in Kws,
             cuda_stream \in Streams :
            RunCudaStream(t, e, inB, outB, inputs, kwargs, cuda_stream)

Next == Calls(1, InputVectors, KwargSets) \/ Steps(1)

Spec == Init /\ [][Next]_vars

\* SpecBind: the same caller, which also replaces the shared pool and the
\* shared stream of any of the three classes between its calls; every call
\* passes the same one input and one argument.
Setters ==
  \/ \E B \in Backends : SetThreadPool(B, 2, 0, TRUE)
  \/ \E B \in Backends, device_id \in DeviceIds : SetCudaStream(B, device_id)

NextBind ==
  \/ Calls(1, {<<1>>}, {ArgNames \X {1}})
  \/ Steps(1)
  \/ call[1].pc = "idle" /\ Setters

SpecBind == Init /\ [][NextBind]_vars

\* SpecRace: the same caller, and a second thread that replaces the shared
\* pool of any of the three classes at any moment, also while a call is in
\* flight.
NextRace ==
  \/ Calls(1, {<<1>>}, {ArgNames \X {1}})
  \/ Steps(1)
  \/ \E B \in Backends : SetThreadPool(B, 2, 0, TRUE)

SpecRace == Init /\ [][NextRace]_vars

\* SpecConc: two caller threads that call Run on the same accelerator
\* instance with no synchronisation between them; their calls interleave at
\* the granularity of the workspace operations.  Each thread makes one
\* call, at any moment before, during or after the call of the other, and
\* thread t passes input batch t.
NextConc ==
  \E t \in Threads :
    \/ last[t] = "none" /\ RunDefault(t, "GPU", "GPU", "GPU", <<t>>, ArgNames \X {1})
    \/ Steps(t)

SpecConc == Init /\ [][NextConc]_vars

\* SpecInst: two caller threads, each calling Run on its own instance of
\* the accelerator class, with no synchronisation between them.  Each
\* thread makes one call, default-path or with an explicit stream, and
\* thread t passes input batch t.
InstanceOf(t) == IF t = 1 THEN "GPU" ELSE SecondInstance
NextInst ==
  \E t \in Threads :
    \/ last[t] = "none" /\
         RunDefault(t, InstanceOf(t), "GPU", "GPU", <<t>>, ArgNames \X {1})
    \/ last[t] = "none" /\ \E cuda_stream \in Streams :
         RunCudaStream(t, InstanceOf(t), "GPU", "GPU", <<t>>, ArgNames \X {1},
                       cuda_stream)
    \/ Steps(t)

SpecInst == Init /\ [][NextInst]_vars

\* SpecFaults: the same caller with an operator that may misbehave: Setup or
\* Run may throw, Setup may return true after filling in fewer descriptors
\* than there are outputs, and a stream synchronisation may fail; every
\* call passes one input batch and the same one argument.
FaultySteps(t) ==
  \/ Clear(t)
  \/ SetBinding(t)
  \/ \E ok \in BOOLEAN : Sync1(t, ok)
  \/ AddInput(t)
  \/ AddArgumentInput(t)
  \/ AddOutput(t)
  \/ SetBatchSizes(t)
  \/ \E r \in {"throw", "false", "true"}, nd \in DescCounts(num_outputs[call[t].e]) :
       Setup(t, r, nd)
  \/ \E b \in BOOLEAN : CanInferOutputs(t, b)
  \/ \E ub \in {"garbage", "fault"} : ResizeOutput(t, ub)
  \/ \E ok \in BOOLEAN : OpRun(t, ok)
  \/ Convert(t)
  \/ \E ok \in BOOLEAN : Sync2(t, ok)
  \/ Return(t)

NextFaults ==
  Calls(1, [1..1 -> InputBatches], {ArgNames \X {1}}) \/ FaultySteps(1)

SpecFaults == Init /\ [][NextFaults]_vars

\* ------------------------------------------------------------- claims
\* C1: in each of the three supported combinations, and whatever calls were
\* made before, a Run call that is about to return successfully returns
\* exactly num_outputs batches, and the i-th of them is the conversion of
\* output slot i of the workspace: it has the slot's sample count, shape,
\* type and values, and the values are those the operator wrote to output i.
C1_ReturnsDeclaredOutputs ==
  \A t \in Threads :
    call[t].pc = "Return" =>
      LET c == call[t]
          w == ws[c.e]
      IN /\ Len(c.outputs) = num_outputs[c.e]
         /\ Len(w.outputs) = num_outputs[c.e]
         /\ \A k \in 1..num_outputs[c.e] :
              /\ heap[c.outputs[k]].kind = "TensorList"
              /\ heap[c.outputs[k]].n = heap[w.outputs[k]].n
              /\ heap[c.outputs[k]].shape = heap[w.outputs[k]].shape
              /\ heap[c.outputs[k]].type = heap[w.outputs[k]].type
              /\ heap[c.outputs[k]].val = heap[w.outputs[k]].val
              /\ heap[c.outputs[k]].val = <<w.inputs, w.args, k>>
C1_Witness ==
  \E t \in Threads :
    /\ call[t].pc = "Return"
    /\ held[t] # <<>>
    /\ Len(call[t].outputs) = 2

\* C2: a Run call whose (engine, input backend, output backend, binding
\* form) is not one of the six supported specialisations never gets into a
\* Run body, and the step in which it fails leaves the workspaces, the
\* heap, the streams and every activation record as they were.
SupportedForms ==
  {<<"CPU", "CPU", "CPU", "default">>, <<"CPU", "CPU", "CPU", "pool">>,
   <<"GPU", "GPU", "GPU", "default">>, <<"GPU", "GPU", "GPU", "stream">>,
   <<"Mixed", "CPU", "GPU", "default">>, <<"Mixed", "CPU", "GPU", "stream">>}
C2_UnsupportedFailsUntouched ==
  [][\A t \in Threads :
       /\ (call[t].pc = "idle" /\ call'[t].pc # "idle") =>
            /\ <<call'[t].e, call'[t].inB, call'[t].outB, call'[t].form>> \in SupportedForms
            /\ call'[t].pc = "Clear"
            /\ ws' = ws
       /\ (last'[t] = "unsupported" /\ last[t] # "unsupported") =>
            /\ ws' = ws /\ heap' = heap /\ pending' = pending
            /\ call' = call /\ held' = held]_vars
C2_Witness ==
  \E t \in Threads, e \in Engines :
    /\ last[t] = "unsupported"
    /\ call[t].pc = "idle"
    /\ ws[e].inputs # <<>> /\ ws[e].outputs # <<>>

\* C3: at the moment Setup is invoked the workspace holds exactly this
\* call's inputs (same count, same order), exactly this call's named
\* arguments, exactly num_outputs output slots, all of them fresh (never
\* resized or written, and none of them a batch of an earlier call), this
\* call's resource binding and no other, and the constructed batch size.
C3_WorkspaceResetEachCall ==
  \A t \in Threads :
    call[t].pc = "Setup" =>
      LET c == call[t]
          w == ws[c.e]
      IN /\ Len(w.inputs) = Len(c.inputs)
         /\ \A k \in 1..Len(c.inputs) : w.inputs[k].data = c.inputs[k]
         /\ w.args = c.kwargs
         /\ Len(w.outputs) = num_outputs[c.e]
         /\ \A j, k \in 1..Len(w.outputs) : j # k => w.outputs[j] # w.outputs[k]
         /\ \A k \in 1..Len(w.outputs) :
              /\ heap[w.outputs[k]] = NewSlot(WSOutputType(c.e), batch_size[c.e])
              /\ w.outputs[k] \notin Range(held[t])
         /\ IF c.e = "CPU" THEN w.tp = c.res /\ w.stream = NoStream
                           ELSE w.stream = c.res /\ w.tp = NoPool
         /\ w.batch = batch_size[c.e]
C3_Witness ==
  \E t \in Threads :
    /\ call[t].pc = "Setup"
    /\ held[t] # <<>>
    /\ call[t].inputs = <<>> /\ call[t].kwargs = {}
    /\ call[t].e = "Mixed"

\* C4: an accelerator or staged call that is about to return has done, in
\* this order: Clear, set_stream, a synchronisation of the bound stream,
\* then only workspace population, Setup, CanInferOutputs, Resize, Run and
\* output conversion with Setup before Run, then a second synchronisation
\* of the bound stream as its last step, and these are its only two
\* synchronisations; nothing is pending on the bound stream and no returned
\* batch has a queued write.  A host call has done no synchronisation.
SyncSteps(tr) == {k \in 1..Len(tr) : tr[k][1] = "cudaStreamSynchronize"}
C4_StreamSyncBrackets ==
  \A t \in Threads :
    call[t].pc = "Return" =>
      LET c == call[t]
          tr == c.trace
      IN IF c.e = "CPU"
         THEN SyncSteps(tr) = {}
         ELSE /\ Len(tr) > 3
              /\ tr[1][1] = "Clear"
              /\ tr[2] = <<"set_stream", c.res>>
              /\ SyncSteps(tr) = {3, Len(tr)}
              /\ tr[3][2] = c.res /\ tr[Len(tr)][2] = c.res
              /\ \A k \in 4..(Len(tr) - 1) :
                   tr[k][1] \in {"AddInput", "AddArgumentInput", "AddOutput",
                                 "SetBatchSizes", "Setup", "CanInferOutputs",
                                 "Resize", "Run", "AsTensorList"}
              /\ \E ks, kr \in 4..(Len(tr) - 1) :
                   /\ ks < kr /\ tr[ks][1] = "Setup" /\ tr[kr][1] = "Run"
                   /\ \A k \in 4..(Len(tr) - 1) :
                        tr[k][1] \in {"AddInput", "AddArgumentInput", "AddOutput",
                                      "SetBatchSizes"} => k < ks
              /\ pending[c.res] = {}
              /\ \A s \in Streams : pending[s] \cap Range(c.outputs) = {}
C4_Witness ==
  \E t \in Threads :
    /\ call[t].pc = "Return"
    /\ call[t].e = "Mixed"
    /\ call[t].res = 1
    /\ Len(call[t].outputs) = 2
    /\ Len(call[t].inputs) = 1

\* C5: when Run starts, Setup has been invoked exactly once in this call; if
\* Setup returned true and the operator reported it can infer outputs then
\* every output slot has been resized by the engine, after Setup, and has
\* the shape and type of descriptor i wherever Setup produced descriptor i;
\* otherwise no output slot has been resized: each is as it was allocated.
C5_OutputMaterialisation ==
  \A t \in Threads :
    call[t].pc = "OpRun" =>
      LET c == call[t]
          w == ws[c.e]
          tr == c.trace
          setups == {k \in 1..Len(tr) : tr[k][1] = "Setup"}
          resizes == {k \in 1..Len(tr) : tr[k][1] = "Resize"}
      IN /\ Cardinality(setups) = 1
         /\ IF c.setup = "true" /\ c.infer = "true"
            THEN /\ {tr[k][2] : k \in resizes} = 0..(num_outputs[c.e] - 1)
                 /\ \A k \in resizes : \A j \in setups : j < k
                 /\ \A k \in 1..num_outputs[c.e] :
                      /\ heap[w.outputs[k]].by = "engine"
                      /\ k <= Len(c.output_desc) =>
                           /\ heap[w.outputs[k]].shape = c.output_desc[k].shape
                           /\ heap[w.outputs[k]].type = c.output_desc[k].type
            ELSE /\ resizes = {}
                 /\ \A k \in 1..num_outputs[c.e] :
                      /\ heap[w.outputs[k]].by = "none"
                      /\ heap[w.outputs[k]].shape = NoShape
                      /\ heap[w.outputs[k]].type = NoType
C5_Witness ==
  \E t \in Threads :
    /\ call[t].pc = "OpRun"
    /\ call[t].setup = "true" /\ call[t].infer = "true"
    /\ Len(call[t].output_desc) = 2
    /\ num_outputs[call[t].e] = 2
    /\ heap[ws[call[t].e].outputs[2]].shape = <<2>>

Seq0(name, n) == [k \in 1..n |-> <<name, k - 1>>]
StepsOf(e, res, inputs, kwargs, n, bs, setup, infer) ==
  <<<<"Clear", 0>>,
    <<IF e = "CPU" THEN "SetThreadPool" ELSE "set_stream", res>>>>
  \o (IF e = "CPU" THEN <<>> ELSE <<<<"cudaStreamSynchronize", res>>>>)
  \o Seq0("AddInput", Len(inputs))
  \o [k \in 1..Cardinality(kwargs) |-> <<"AddArgumentInput", 1>>]
  \o Seq0("AddOutput", n)
  \o <<<<"SetBatchSizes", bs>>, <<"Setup", IF setup = "true" THEN 1 ELSE 0>>>>
  \o (IF setup = "true"
      THEN <<<<"CanInferOutputs", IF infer = "true" THEN 1 ELSE 0>>>>
      ELSE <<>>)
  \o (IF setup = "true" /\ infer = "true" THEN Seq0("Resize", n) ELSE <<>>)
  \o <<<<"Run", 0>>>>
  \o Seq0("AsTensorList", n)
  \o (IF e = "CPU" THEN <<>> ELSE <<<<"cudaStreamSynchronize", res>>>>)
C7_BindingFormIrrelevant ==
  \A t \in Threads :
    LET c == call[t] IN
    /\ (c.pc # "idle" /\ c.form = "default") =>
         c.res = IF c.e = "CPU" THEN shared_thread_pool[c.e] ELSE shared_cuda_stream[c.e]
    /\ (c.pc \notin {"idle", "Clear", "SetBinding"}) =>
         IF c.e = "CPU" THEN ws[c.e].tp = c.res ELSE ws[c.e].stream = c.res
    /\ c.pc = "Return" =>
         /\ c.trace = StepsOf(c.e, c.res, c.inputs, c.kwargs, num_outputs[c.e],
                              batch_size[c.e], c.setup, c.infer)
         /\ \A k \in 1..Len(c.outputs) :
              /\ heap[c.outputs[k]].val[3] = k
              /\ heap[c.outputs[k]].val[2] = c.kwargs
              /\ Len(heap[c.outputs[k]].val[1]) = Len(c.inputs)
              /\ \A j \in 1..Len(c.inputs) :
                   heap[c.outputs[k]].val[1][j].data = c.inputs[j]
              /\ heap[c.outputs[k]].shape = <<k>>
C7_Witness ==
  \E t \in Threads :
    /\ call[t].pc = "Return"
    /\ call[t].form = "default"
    /\ call[t].e = "GPU"
    /\ call[t].res = 1
    /\ nsets > 0

\* C8: once a setter of any class has installed a pool or a stream, every
\* default-path call, on an engine of whatever backend, is bound to the pool
\* (host) or stream (accelerator, staged) installed most recently.
C8_DefaultsProcessWide ==
  \A t \in Threads :
    (call[t].pc # "idle" /\ call[t].form = "default") =>
      IF call[t].e = "CPU"
      THEN latest.tp # NoPool => call[t].res = latest.tp
      ELSE latest.stream # NoStream => call[t].res = latest.stream

\* C9: while a call is running, the batches the caller holds from its
\* previous call are not modified, and once the workspace has been cleared
\* they are neither output slots of the workspace nor results of the running
\* call; and the batches a call is about to return were written by the
\* operator from that call's own inputs.
C9_NoCrossCallSwap ==
  [][\A t \in Threads :
       LET c == call'[t] IN
       /\ \A o \in Range(held[t]) \cap Range(held'[t]) :
            /\ o \in DOMAIN heap /\ o \in DOMAIN heap'
            /\ heap'[o] = heap[o]
            /\ c.pc \notin {"idle", "Clear"} =>
                 /\ o \notin Range(ws'[c.e].outputs)
                 /\ o \notin Range(c.outputs)
       /\ c.pc = "Return" =>
            \A k \in 1..Len(c.outputs) :
              /\ c.outputs[k] \in Range(ws'[c.e].outputs) \/ c.e = "CPU"
              /\ Len(heap'[c.outputs[k]].val[1]) = Len(c.inputs)
              /\ \A j \in 1..Len(c.inputs) :
                   heap'[c.outputs[k]].val[1][j].data = c.inputs[j]]_vars
C9_Witness ==
  \E t \in Threads :
    /\ call[t].pc = "Return"
    /\ call[t].e = "GPU"
    /\ call[t].form = "default"
    /\ call[t].inputs = <<2>>
    /\ held[t] # <<>>
    /\ heap[held[t][1]].val[1] # <<>>
    /\ heap[held[t][1]].val[1][1].data = 1
    /\ Range(held[t]) \cap Range(call[t].outputs) = {}

\* C10: every converted output of a running call is, when the workspace slot
\* is a dense batch (accelerator and staged engines), the slot itself, and
\* when the slot is a per-sample batch (host engine), a dense batch at a
\* new address, different from every workspace slot and from every other
\* result, with the slot's sample count, shape, type and values.
C10_RepresentationBridge ==
  \A t \in Threads :
    call[t].pc # "idle" =>
      LET c == call[t]
          w == ws[c.e]
      IN \A k \in 1..Len(c.outputs) :
           LET dst == c.outputs[k]
               src == w.outputs[k]
           IN /\ heap[src].kind = IF c.e = "CPU" THEN "TensorVector" ELSE "TensorList"
              /\ IF heap[src].kind = "TensorList"
                 THEN dst = src
                 ELSE /\ dst \notin Range(w.outputs)
                      /\ dst \notin Range(held[t])
                      /\ \A j \in 1..Len(c.outputs) : j # k => c.outputs[j] # dst
                      /\ heap[dst].kind = "TensorList"
                      /\ heap[dst].n = heap[src].n
                      /\ heap[dst].shape = heap[src].shape
                      /\ heap[dst].type = heap[src].type
                      /\ heap[dst].val = heap[src].val
C10_Witness ==
  \E t \in Threads :
    /\ call[t].pc = "Return"
    /\ call[t].e = "CPU"
    /\ Len(call[t].outputs) = 2
    /\ held[t] # <<>>
    /\ heap[call[t].outputs[2]].val # <<>>

\* C11: a call in which the operator's Setup or Run throws ends in that
\* step: Setup has been invoked once and Run at most once (Run not at all when
\* Setup threw), no output has been converted, the caller receives nothing
\* and keeps what it held; and the next call on the instance finds at Setup a
\* workspace holding only its own data and, when it returns, has done the
\* steps and produced the contents that the same call does on a new instance.
Count(tr, name) == Cardinality({k \in 1..Len(tr) : tr[k][1] = name})
C12_SetStreamEffect ==
  [][\A B \in Backends, device_id \in DeviceIds :
       SetCudaStream(B, device_id) =>
         /\ shared_thread_pool' = shared_thread_pool
         /\ pools' = pools
         /\ latest'.tp = latest.tp
         /\ ws' = ws /\ heap' = heap /\ pending' = pending
         /\ call' = call /\ held' = held
         /\ IF device_id = CPU_ONLY_DEVICE_ID
            THEN /\ shared_cuda_stream' = shared_cuda_stream
                 /\ latest'.stream = latest.stream
            ELSE /\ shared_cuda_stream'[B] = StreamPoolGet(device_id)
                 /\ latest'.stream = StreamPoolGet(device_id)
                 /\ \A B2 \in Backends \ {B} :
                      shared_cuda_stream'[B2] = shared_cuda_stream[B2]]_vars
C12_Witness ==
  /\ nsets = 2
  /\ latest.tp = NoPool
  /\ latest.stream = StreamPoolGet(0)
  /\ shared_cuda_stream["GPU"] = StreamPoolGet(0)
  /\ shared_cuda_stream["Mixed"] = 0
  /\ shared_thread_pool = [B \in Backends |-> InitialPool(B)]

\* C13: a default-path host call captures the shared pool of its class once,
\* when it starts.  As long as that shared pool has not been replaced since
\* the capture, the pool the call holds, and the pool its workspace is bound
\* to, is alive; a workspace of a call in flight is bound to a destroyed
\* pool only when SetThreadPool replaced the shared pool of the call's class
\* after the capture (the state C13_Witness).
C13_PoolAliveUnlessReplaced ==
  \A t \in Threads :
    LET c == call[t] IN
    (c.pc # "idle" /\ c.e = "CPU" /\ c.form = "default") =>
      /\ c.pc \notin {"Clear", "SetBinding"} => ws[c.e].tp = c.res
      /\ c.res = shared_thread_pool[c.e] => c.res \in DOMAIN pools
      /\ c.res \notin DOMAIN pools =>
           /\ latest.tp # NoPool
           /\ shared_thread_pool[c.e] # c.res
           /\ shared_thread_pool[c.e] \in DOMAIN pools
C13_Witness ==
  \E t \in Threads :
    /\ call[t].pc = "OpRun"
    /\ call[t].e = "CPU"
    /\ call[t].form = "default"
    /\ ws["CPU"].tp = call[t].res
    /\ call[t].res \notin DOMAIN pools

\* C14: from Setup on, a call that has had the instance to itself (no other
\* call in flight on the instance at any moment since it started) sees a
\* workspace that holds exactly its own inputs, its own arguments,
\* num_outputs output slots, its own binding and batch size, and it returns
\* the slots of that workspace; a workspace that holds another call's
\* inputs or a different number of slots is seen only by a call that
\* overlapped with another one on the instance (the state C14_Witness).
OwnWorkspace(t) ==
  LET c == call[t]
      w == ws[c.e]
  IN /\ w.inputs = [k \in 1..Len(c.inputs) |-> WrapInput(c.e, k - 1, c.inputs[k])]
     /\ w.args = c.kwargs
     /\ Len(w.outputs) = num_outputs[c.e]
     /\ IF c.e = "CPU" THEN w.tp = c.res ELSE w.stream = c.res
     /\ w.batch = batch_size[c.e]
C14_SequentialCallsOwnWorkspace ==
  \A t \in Threads :
    LET c == call[t] IN
    (c.pc \in {"Setup", "CanInferOutputs", "Resize", "OpRun", "Convert", "Sync2",
               "Return"} /\ ~c.overlap) =>
      /\ OwnWorkspace(t)
      /\ c.pc \in {"Sync2", "Return"} => c.outputs = ws[c.e].outputs
C14_Witness ==
  \E t \in Threads :
    /\ call[t].pc = "Setup"
    /\ call[t].overlap
    /\ call[t].inputs = <<1>>
    /\ Len(ws[call[t].e].inputs) = 1
    /\ ws[call[t].e].inputs[1].data = 2
    /\ Len(ws[call[t].e].outputs) > num_outputs[call[t].e]

\* C15: the workspace and operator steps of a call that is about to return
\* have happened in the order clear, binding, inputs (by index), arguments,
\* output slots (by index), batch size, Setup, CanInferOutputs and resizes
\* (by index), Run, conversions (by index); the call has done the
\* clear, the binding, the batch size, Setup and Run once each, one input
\* step per input, one argument step per argument, num_outputs allocations
\* and conversions, and num_outputs resizes or none; and the workspace
\* inputs share the storage of the call's inputs in input order.
Rank(name) ==
  CASE name = "Clear" -> 1
    [] name \in {"SetThreadPool", "set_stream"} -> 2
    [] name = "AddInput" -> 3
    [] name = "AddArgumentInput" -> 4
    [] name = "AddOutput" -> 5
    [] name = "SetBatchSizes" -> 6
    [] name = "Setup" -> 7
    [] name = "CanInferOutputs" -> 8
    [] name = "Resize" -> 9
    [] name = "Run" -> 10
    [] name = "AsTensorList" -> 11
    [] OTHER -> 0
Indexed == {"AddInput", "AddOutput", "Resize", "AsTensorList"}
ArgsOf(tr, name) ==
  LET F[k \in 0..Len(tr)] ==
        IF k = 0 THEN <<>>
        ELSE IF tr[k][1] = name THEN Append(F[k - 1], tr[k][2]) ELSE F[k - 1]
  IN F[Len(tr)]
C16_InstancesDoNotInterfere ==
  \A t \in Threads :
    LET c == call[t]
        w == ws[c.e]
    IN
    c.pc \notin {"idle", "Clear"} =>
      /\ Len(w.inputs) <= Len(c.inputs)
      /\ \A k \in 1..Len(w.inputs) : w.inputs[k] = WrapInput(c.e, k - 1, c.inputs[k])
      /\ w.args \subseteq c.kwargs
      /\ Len(w.outputs) <= num_outputs[c.e]
      /\ c.pc \in {"Setup", "CanInferOutputs", "Resize", "OpRun", "Convert", "Sync2",
                   "Return"} => OwnWorkspace(t)
      /\ \A e2 \in Instances \ {c.e} : Range(w.outputs) \cap Range(ws[e2].outputs) = {}
      /\ c.pc = "Return" =>
           /\ c.outputs = w.outputs
           /\ \A k \in 1..Len(c.outputs) :
                heap[c.outputs[k]].val =
                  <<[j \in 1..Len(c.inputs) |-> WrapInput(c.e, j - 1, c.inputs[j])],
                    c.kwargs, k>>
      /\ \A t2 \in Threads :
           (call[t2].pc # "idle" /\ call[t2].form = "default" /\ c.form = "default"
            /\ ClassOf(call[t2].e) = ClassOf(c.e)) => call[t2].res = c.res
C16_Witness ==
  /\ call[1].pc = "Return"
  /\ call[2].pc = "OpRun"
  /\ call[1].e # call[2].e
  /\ call[1].form = "default" /\ call[2].form = "default"
  /\ Len(ws[call[2].e].outputs) = 2

\* C17: a step that changes a shared pool, a shared stream or the set of
\* live pools is a setter call and no step of a Run call; a Run call with an
\* explicit pool or stream that enters its specialisation holds exactly the
\* pool or stream it was given; and the binding step of such a call binds
\* the workspace to that pool or stream, whatever the shared pool and stream
\* of the class are.
C17_RunLeavesDefaults ==
  [][/\ (\/ shared_thread_pool' # shared_thread_pool
         \/ shared_cuda_stream' # shared_cuda_stream
         \/ pools' # pools) =>
          /\ nsets' = nsets + 1
          /\ call' = call /\ ws' = ws /\ last' = last
     /\ \A t \in Threads, e \in Engines, tp \in PoolArgs :
          (RunThreadPool(t, e, "CPU", "CPU", <<1>>, ArgNames \X {1}, tp)
           /\ Supported(e, "CPU", "CPU", "pool")) =>
            call'[t].form = "pool" /\ call'[t].res = tp
     /\ \A t \in Threads, e \in Engines, inB \in DataBackends, cuda_stream \in Streams :
          (RunCudaStream(t, e, inB, "GPU", <<1>>, ArgNames \X {1}, cuda_stream)
           /\ Supported(e, inB, "GPU", "stream")) =>
            call'[t].form = "stream" /\ call'[t].res = cuda_stream
     /\ \A t \in Threads :
          (call[t].pc = "SetBinding" /\ call'[t].pc # "SetBinding"
           /\ call[t].form \in {"pool", "stream"}) =>
            /\ call'[t].res = call[t].res
            /\ IF call[t].e = "CPU"
               THEN ws'[call[t].e].tp = call[t].res
               ELSE ws'[call[t].e].stream = call[t].res]_vars
C17_Witness ==
  \E t \in Threads :
    /\ call[t].pc = "Setup"
    /\ call[t].form = "stream"
    /\ call[t].res = 0
    /\ shared_cuda_stream[call[t].e] = StreamPoolGet(0)
    /\ ws[call[t].e].stream = 0

\* C18: whenever the resize loop is about to read descriptor i, Setup has
\* filled in a descriptor i.
C18_DescriptorReadInRange ==
  \A t \in Threads :
    call[t].pc = "Resize" => call[t].i < Len(call[t].output_desc)

\* C19: the shared pool of every class is present and alive and the shared
\* stream of every class is a stream handle; a default-path host call is
\* bound to a live pool, and when no SetThreadPool call has been made, to the
\* initial pool of its class, which has 1 thread, device 0 and no affinity;
\* a default-path accelerator or staged call made when no SetCudaStream call
\* has installed a stream is bound to the initial stream handle 0.
C19_DefaultBindingExists ==
  /\ \A B \in Backends :
       /\ shared_thread_pool[B] # NoPool
       /\ shared_thread_pool[B] \in DOMAIN pools
       /\ shared_cuda_stream[B] \in Streams
  /\ \A t \in Threads :
       LET c == call[t] IN
       (c.pc # "idle" /\ c.form = "default") =>
         IF c.e = "CPU"
         THEN /\ c.res \in DOMAIN pools
              /\ latest.tp = NoPool =>
                   /\ c.res = InitialPool(c.e)
                   /\ pools[c.res] = [num_threads |-> 1, device_id |-> 0,
                                      set_affinity |-> FALSE]
         ELSE latest.stream = NoStream => c.res = 0
C19_Witness ==
  \E t \in Threads :
    /\ call[t].pc = "Setup"
    /\ call[t].form = "default"
    /\ call[t].e = "CPU"
    /\ nsets > 0
    /\ latest.tp = NoPool
    /\ ws["CPU"].tp = InitialPool("CPU")

====
